---- MODULE Spec2Model ----
(***************************************************************************)
(* Model of the Chart component (components/Chart.tsx): the CSV load       *)
(* lifecycle, the timestamp parser, row validation, the sort and signal    *)
(* pass, the window selection driven by timeframe / scrollOffset, and the  *)
(* simple moving average.                                                  *)
(*                                                                         *)
(* Strings are tuples of one-character strings.  Numbers are records       *)
(* [k, v]: k = "num" with v the value (prices in hundredths, everything    *)
(* else in units), k = "nan" for NaN, k = "inf" with v = 1 / -1 for        *)
(* +Infinity / -Infinity.  Instants are minutes since 01-01-1970 00:00 of  *)
(* the naive local calendar (no DST).  Arithmetic is exact: IEEE rounding  *)
(* of the products with 1.005 / 0.995 and of the mean is not modelled.     *)
(***************************************************************************)
EXTENDS Integers, Sequences, FiniteSets, TLC

VARIABLES
    data,             \* useState<CandleData[]>([])          (line 44)
    error,            \* useState<string | null>(null)       (line 45)
    timeframe,        \* useState('all')                     (line 46)
    loading,          \* useState<boolean>(true)             (line 47)
    scrollOffset,     \* useState<number>(0)                 (line 48)
    maxScrollOffset,  \* useState<number>(0)                 (line 49)
    loadStep,         \* where loadData is: "fetching" or how it ended
    results,          \* results.data handed to Papa's complete callback
    pendingEffects,   \* dependencies changed by the last commit whose effects have not run yet
    now,              \* wall clock read by `new Date()` in parseDate's catch branch
    smaWindow,        \* filteredData handed to calculateSMA
    smaPeriod,        \* period handed to calculateSMA (0: not called yet)
    smaResult,        \* the list calculateSMA returned
    parseInput,       \* dateStr handed to parseDate
    parseResult       \* whether parseDate was called, the wall clock then, the Date it returned

vars == <<data, error, timeframe, loading, scrollOffset, maxScrollOffset,
          loadStep, results, pendingEffects, now, smaWindow, smaPeriod, smaResult,
          parseInput, parseResult>>

chartVars == <<data, error, timeframe, loading, scrollOffset, maxScrollOffset,
               loadStep, results, pendingEffects, now>>

smaVars == <<smaWindow, smaPeriod, smaResult>>

parseVars == <<parseInput, parseResult>>

----------------------------------------------------------------------------
(* JavaScript values                                                       *)

Num(n) == [k |-> "num", v |-> n]

NaN == [k |-> "nan", v |-> 0]

Infinity(sign) == [k |-> "inf", v |-> sign]

isNaN(x) == x.k = "nan"

IsFinite(x) == x.k = "num"

\* undefined, as a value a destructured token or a missing CSV column can have
Undefined == <<"undefined">>

null == "null"

----------------------------------------------------------------------------
(* Strings                                                                 *)

Digits == {"0", "1", "2", "3", "4", "5", "6", "7", "8", "9"}

DigitVal == ("0" :> 0) @@ ("1" :> 1) @@ ("2" :> 2) @@ ("3" :> 3) @@ ("4" :> 4) @@
            ("5" :> 5) @@ ("6" :> 6) @@ ("7" :> 7) @@ ("8" :> 8) @@ ("9" :> 9)

Drop(s, n) == SubSeq(s, n + 1, Len(s))

Take(s, n) == SubSeq(s, 1, n)

\* position of the first occurrence of character c in s at or after
\* position from, 0 when there is none
RECURSIVE IndexOfFrom(_, _, _)
IndexOfFrom(s, c, from) ==
    IF from > Len(s) THEN 0
    ELSE IF s[from] = c THEN from
    ELSE IndexOfFrom(s, c, from + 1)

IndexOf(s, c) == IndexOfFrom(s, c, 1)

\* String.prototype.split(sep) for a one-character separator
RECURSIVE split(_, _)
split(s, sep) ==
    LET p == IndexOf(s, sep)
    IN IF p = 0 THEN <<s>>
       ELSE <<Take(s, p - 1)>> \o split(Drop(s, p), sep)

\* const [a, b, ...] = tokens : the i-th token, undefined when there are fewer
Destructure(tokens, i) == IF i <= Len(tokens) THEN tokens[i] ELSE Undefined

\* leading white space skipped by parseInt / parseFloat
RECURSIVE TrimStart(_)
TrimStart(s) == IF Len(s) > 0 /\ s[1] = " " THEN TrimStart(Drop(s, 1)) ELSE s

\* number of decimal digits of s from position from on, up to the first
\* character that is not one
RECURSIVE DigitRunFrom(_, _)
DigitRunFrom(s, from) ==
    IF from <= Len(s) /\ s[from] \in Digits THEN 1 + DigitRunFrom(s, from + 1) ELSE 0

\* length of the longest prefix of s made of decimal digits
DigitPrefixLen(s) == DigitRunFrom(s, 1)

\* value of the first n characters of s, all decimal digits
RECURSIVE DigitsValueUpTo(_, _)
DigitsValueUpTo(s, n) ==
    IF n = 0 THEN 0 ELSE 10 * DigitsValueUpTo(s, n - 1) + DigitVal[s[n]]

\* value of a string of decimal digits
DigitsValue(s) == DigitsValueUpTo(s, Len(s))

SignOf(s) == IF Len(s) > 0 /\ s[1] = "-" THEN -1 ELSE 1

StripSign(s) == IF Len(s) > 0 /\ s[1] \in {"-", "+"} THEN Drop(s, 1) ELSE s

\* parseInt(string): optional white space, optional sign, the longest prefix
\* of decimal digits; NaN when there is no digit (also for undefined).
parseInt(str) ==
    LET t == TrimStart(str)
        body == StripSign(t)
        n == DigitPrefixLen(body)
    IN IF n = 0 THEN NaN ELSE Num(SignOf(t) * DigitsValue(Take(body, n)))

InfinityLiteral == <<"I", "n", "f", "i", "n", "i", "t", "y">>

StartsWith(s, p) == Len(s) >= Len(p) /\ Take(s, Len(p)) = p

\* the first two fraction digits of a digit string, as hundredths
FractionHundredths(f) ==
    IF Len(f) = 0 THEN 0
    ELSE IF Len(f) = 1 THEN 10 * DigitVal[f[1]]
    ELSE 10 * DigitVal[f[1]] + DigitVal[f[2]]

\* parseFloat(string), in hundredths: optional white space, optional sign,
\* then "Infinity" or digits with an optional fraction; NaN when neither is
\* there.  Fraction digits after the second and exponents are not modelled.
parseFloat(str) ==
    LET t == TrimStart(str)
        body == StripSign(t)
        n == DigitPrefixLen(body)
        rest == Drop(body, n)
        hasDot == Len(rest) > 0 /\ rest[1] = "."
        fracLen == IF hasDot THEN DigitPrefixLen(Drop(rest, 1)) ELSE 0
        frac == IF hasDot THEN Take(Drop(rest, 1), fracLen) ELSE <<>>
    IN IF StartsWith(body, InfinityLiteral) THEN Infinity(SignOf(t))
       ELSE IF n = 0 /\ fracLen = 0 THEN NaN
       ELSE Num(SignOf(t) * (100 * DigitsValue(Take(body, n)) + FractionHundredths(frac)))

----------------------------------------------------------------------------
(* Dates                                                                   *)

IsLeapYear(y) == (y % 4 = 0 /\ y % 100 # 0) \/ y % 400 = 0

\* leap days in the years 1 .. y-1
LeapDaysBefore(y) == ((y - 1) \div 4) - ((y - 1) \div 100) + ((y - 1) \div 400)

\* days from 01-01-1970 to the first of January of year y
DaysBeforeYear(y) == 365 * (y - 1970) + LeapDaysBefore(y) - LeapDaysBefore(1970)

\* days from the first of January to the first of month index m (0 = January)
DaysBeforeMonth(m, leap) ==
    LET cum == <<0, 31, 59, 90, 120, 151, 181, 212, 243, 273, 304, 334>>
    IN cum[m + 1] + (IF leap /\ m >= 2 THEN 1 ELSE 0)

\* new Date(year, monthIndex, day, hours, minutes).getTime(), in minutes of
\* local time: NaN (Invalid Date) when a component is NaN; a year 0..99 means
\* 1900 + year; components out of range carry over.
NewDate(year, monthIndex, day, hours, minutes) ==
    IF isNaN(year) \/ isNaN(monthIndex) \/ isNaN(day) \/ isNaN(hours) \/ isNaN(minutes)
    THEN NaN
    ELSE LET y0 == IF year.v >= 0 /\ year.v <= 99 THEN 1900 + year.v ELSE year.v
             months == 12 * y0 + monthIndex.v
             y == months \div 12
             m == months % 12
             days == DaysBeforeYear(y) + DaysBeforeMonth(m, IsLeapYear(y)) + (day.v - 1)
         IN Num((days * 24 + hours.v) * 60 + minutes.v)

\* x - 1 on a JavaScript number
MinusOne(x) == IF IsFinite(x) THEN Num(x.v - 1) ELSE x

\* parseDate(dateStr), the wall clock reading clock: a string without a space
\* leaves time undefined, time.split throws and the catch returns the
\* current date; every other string reaches new Date(...).
parseDate(dateStr, clock) ==
    LET parts == split(dateStr, " ")
        date == Destructure(parts, 1)
        time == Destructure(parts, 2)
    IN IF time = Undefined THEN Num(clock)
       ELSE LET dmy == split(date, "-")
                hm == split(time, ":")
                day == Destructure(dmy, 1)
                month == Destructure(dmy, 2)
                year == Destructure(dmy, 3)
                hours == Destructure(hm, 1)
                minutes == Destructure(hm, 2)
            IN NewDate(parseInt(year), MinusOne(parseInt(month)), parseInt(day),
                       parseInt(hours), parseInt(minutes))

\* a - b on JavaScript numbers that are instants (never infinite)
Minus(a, b) == IF isNaN(a) \/ isNaN(b) THEN NaN ELSE Num(a.v - b.v)

\* a >= b and a <= b on instants: false when either side is NaN
Geq(a, b) == ~isNaN(a) /\ ~isNaN(b) /\ a.v >= b.v

Leq(a, b) == ~isNaN(a) /\ ~isNaN(b) /\ a.v <= b.v

----------------------------------------------------------------------------
(* loadData: validation, sort, signals                                     *)

\* a CSV field in a boolean context: the empty string and undefined are falsy
Truthy(field) == field # <<>> /\ field # Undefined

\* row.timestamp && row.open && row.high && row.low && row.close && row.volume
hasAllFields(row) ==
    /\ Truthy(row.timestamp) /\ Truthy(row.open) /\ Truthy(row.high)
    /\ Truthy(row.low) /\ Truthy(row.close) /\ Truthy(row.volume)

isValidNumbers(row) ==
    /\ ~isNaN(parseFloat(row.open)) /\ ~isNaN(parseFloat(row.high))
    /\ ~isNaN(parseFloat(row.low)) /\ ~isNaN(parseFloat(row.close))
    /\ ~isNaN(parseInt(row.volume))

\* the numeric check left out
rowFilterFieldsOnly(row) == hasAllFields(row)

\* the predicate of results.data.filter(...)
rowFilter(row) == hasAllFields(row) /\ isValidNumbers(row)

\* the function of .map((row: CSVRow) => ({...}))
rowMap(row) ==
    [timestamp |-> row.timestamp,
     open |-> parseFloat(row.open),
     high |-> parseFloat(row.high),
     low |-> parseFloat(row.low),
     close |-> parseFloat(row.close),
     volume |-> parseInt(row.volume),
     signal |-> null]

\* parsedData = results.data.filter(...).map(...)
normalize(rows) ==
    LET kept == SelectSeq(rows, rowFilter)
    IN [i \in 1..Len(kept) |-> rowMap(kept[i])]

\* the operands swapped: oldest first
compareFnAscending(a, b, clock) ==
    Minus(parseDate(a.timestamp, clock), parseDate(b.timestamp, clock))

\* the comparator of parsedData.sort: dateB.getTime() - dateA.getTime()
compareFn(a, b, clock) == Minus(parseDate(b.timestamp, clock), parseDate(a.timestamp, clock))

\* the sign sort sees: a NaN result counts as +0
SortSign(a, b, clock) ==
    LET c == compareFn(a, b, clock)
    IN IF isNaN(c) THEN 0 ELSE IF c.v < 0 THEN -1 ELSE IF c.v > 0 THEN 1 ELSE 0

\* ECMAScript's "consistent comparator" over the elements being sorted
ConsistentComparator(s, clock) ==
    LET I == 1..Len(s)
        c(i, j) == SortSign(s[i], s[j], clock)
    IN /\ \A i \in I : c(i, i) = 0
       /\ \A i, j \in I : c(i, j) = -c(j, i)
       /\ \A i, j, l \in I :
            /\ (c(i, j) = 0 /\ c(j, l) = 0) => c(i, l) = 0
            /\ (c(i, j) < 0 /\ c(j, l) < 0) => c(i, l) < 0
            /\ (c(i, j) > 0 /\ c(j, l) > 0) => c(i, l) > 0

\* x put into an already sorted list, after the elements it does not precede
RECURSIVE InsertSorted(_, _, _)
InsertSorted(x, sorted, clock) ==
    IF Len(sorted) = 0 THEN <<x>>
    ELSE IF SortSign(x, sorted[1], clock) < 0 THEN <<x>> \o sorted
    ELSE <<sorted[1]>> \o InsertSorted(x, Drop(sorted, 1), clock)

\* Array.prototype.sort with a consistent comparator: the stable sort
RECURSIVE StableSort(_, _)
StableSort(s, clock) ==
    IF Len(s) = 0 THEN <<>>
    ELSE InsertSorted(s[Len(s)], StableSort(Take(s, Len(s) - 1), clock), clock)

SeqPermutations(s) ==
    LET I == 1..Len(s)
    IN {[i \in I |-> s[p[i]]] : p \in {q \in [I -> I] : \A i, j \in I : q[i] = q[j] => i = j}}

\* parsedData.sort(...): the stable sort; with a comparator that is not
\* consistent the order is implementation-defined, any permutation.
SortOutcomes(s, clock) ==
    IF ConsistentComparator(s, clock) THEN {StableSort(s, clock)} ELSE SeqPermutations(s)

\* -1, 0, 1 for -Infinity, a finite number, +Infinity
Rank(x) == IF x.k = "inf" THEN x.v ELSE 0

\* a > b * (milli / 1000) on JavaScript numbers, milli > 0
GtTimes(a, b, milli) ==
    IF isNaN(a) \/ isNaN(b) THEN FALSE
    ELSE IF IsFinite(a) /\ IsFinite(b) THEN a.v * 1000 > b.v * milli
    ELSE Rank(a) > Rank(b)

\* a < b * (milli / 1000) on JavaScript numbers, milli > 0
LtTimes(a, b, milli) ==
    IF isNaN(a) \/ isNaN(b) THEN FALSE
    ELSE IF IsFinite(a) /\ IsFinite(b) THEN a.v * 1000 < b.v * milli
    ELSE Rank(a) < Rank(b)

\* the comparison taken the other way round: the older close against the newer
signalOfInverted(parsedData, index) ==
    IF index = Len(parsedData) THEN parsedData[index]
    ELSE LET item == parsedData[index]
             nextItem == parsedData[index + 1]
         IN IF GtTimes(nextItem.close, item.close, 1005)
            THEN [item EXCEPT !.signal = "buy"]
            ELSE IF LtTimes(nextItem.close, item.close, 995)
            THEN [item EXCEPT !.signal = "sell"]
            ELSE item

\* the callback of parsedData.map((item, index) => ...), index from 1 here
signalOf(parsedData, index) ==
    IF index = Len(parsedData) THEN parsedData[index]
    ELSE LET item == parsedData[index]
             nextItem == parsedData[index + 1]
         IN IF GtTimes(item.close, nextItem.close, 1005)
            THEN [item EXCEPT !.signal = "buy"]
            ELSE IF LtTimes(item.close, nextItem.close, 995)
            THEN [item EXCEPT !.signal = "sell"]
            ELSE item

dataWithSignals(parsedData) == [i \in 1..Len(parsedData) |-> signalOf(parsedData, i)]

----------------------------------------------------------------------------
(* Window selection                                                        *)

\* the switch of getFilteredData and of the maxScrollOffset effect: both
\* minutesToSubtract and dataPointsPerTimeframe, 60 by default
unitMinutes(tf) ==
    CASE tf = "1m" -> 1
      [] tf = "5m" -> 5
      [] tf = "15m" -> 15
      [] tf = "1h" -> 60
      [] OTHER -> 60

\* array.slice(0, n)
slice0(s, n) == Take(s, IF n < Len(s) THEN n ELSE Len(s))

\* the upper end taken as exclusive: itemDate < offsetTime
isIncludedOpenEnd(item, cutoffTime, offsetTime, clock) ==
    LET itemDate == parseDate(item.timestamp, clock)
    IN Geq(itemDate, cutoffTime) /\ Leq(itemDate, offsetTime) /\ itemDate # offsetTime

\* itemDate >= cutoffTime && itemDate <= offsetTime
isIncluded(item, cutoffTime, offsetTime, clock) ==
    LET itemDate == parseDate(item.timestamp, clock)
    IN Geq(itemDate, cutoffTime) /\ Leq(itemDate, offsetTime)

\* without the fallback slice
getFilteredDataNoFallback(d, tf, offset, clock) ==
    IF tf = "all" \/ Len(d) = 0 THEN d
    ELSE LET mostRecentDate == parseDate(d[1].timestamp, clock)
             minutesToSubtract == unitMinutes(tf)
             offsetMinutes == offset * minutesToSubtract
             offsetTime == Minus(mostRecentDate, Num(offsetMinutes))
             cutoffTime == Minus(offsetTime, Num(minutesToSubtract))
             Included(item) == isIncluded(item, cutoffTime, offsetTime, clock)
         IN SelectSeq(d, Included)

getFilteredData(d, tf, offset, clock) ==
    IF tf = "all" \/ Len(d) = 0 THEN d
    ELSE LET mostRecentDate == parseDate(d[1].timestamp, clock)
             minutesToSubtract == unitMinutes(tf)
             dataPointsPerTimeframe == unitMinutes(tf)
             offsetMinutes == offset * minutesToSubtract
             offsetTime == Minus(mostRecentDate, Num(offsetMinutes))
             cutoffTime == Minus(offsetTime, Num(minutesToSubtract))
             Included(item) == isIncluded(item, cutoffTime, offsetTime, clock)
             filtered == SelectSeq(d, Included)
         IN IF Len(filtered) = 0 THEN slice0(d, dataPointsPerTimeframe) ELSE filtered

Max(a, b) == IF a > b THEN a ELSE b

Min(a, b) == IF a < b THEN a ELSE b

\* the value the maxScrollOffset effect sets
maxScrollOffsetFor(d, tf) ==
    IF Len(d) = 0 \/ tf = "all" THEN 0
    ELSE LET dataPointsPerTimeframe == unitMinutes(tf)
             totalAvailableTimeframes == (Len(d) \div dataPointsPerTimeframe) - 1
         IN Max(0, totalAvailableTimeframes)

----------------------------------------------------------------------------
(* Moving average                                                          *)

\* the loop stops one bar early: i < period - 1
RECURSIVE sumClosesOneShort(_, _, _)
sumClosesOneShort(filteredData, index, period) ==
    IF period <= 1 THEN 0
    ELSE filteredData[index - (period - 2)].close.v
         + sumClosesOneShort(filteredData, index, period - 1)

\* sum of filteredData[index - i].close for i = 0 .. period-1
RECURSIVE sumCloses(_, _, _)
sumCloses(filteredData, index, period) ==
    IF period = 0 THEN 0
    ELSE filteredData[index - (period - 1)].close.v + sumCloses(filteredData, index, period - 1)

\* one entry of calculateSMA, index from 1 here: null, or the quotient
\* sum / period kept as the pair of its numerator and denominator
smaEntry(filteredData, period, index) ==
    IF index - 1 < period - 1 THEN [none |-> TRUE, num |-> 0, den |-> 1]
    ELSE [none |-> FALSE, num |-> sumCloses(filteredData, index, period), den |-> period]

\* the length test taken as <=
calculateSMALengthOffByOne(filteredData, period) ==
    IF Len(filteredData) <= period
    THEN [i \in 1..Len(filteredData) |-> [none |-> TRUE, num |-> 0, den |-> 1]]
    ELSE [i \in 1..Len(filteredData) |-> smaEntry(filteredData, period, i)]

calculateSMA(filteredData, period) ==
    IF Len(filteredData) < period
    THEN [i \in 1..Len(filteredData) |-> [none |-> TRUE, num |-> 0, den |-> 1]]
    ELSE [i \in 1..Len(filteredData) |-> smaEntry(filteredData, period, i)]

----------------------------------------------------------------------------
(* Bounds and the inputs drawn from them                                   *)

\* parseDate not called yet
NotParsed == [called |-> FALSE, at |-> 0, value |-> NaN]

\* longest results.data the CSV parser hands over
MaxRows == 3

\* longest window handed to calculateSMA
MaxWindow == 4

\* largest period handed to calculateSMA
MaxPeriod == 3

DigitChar == <<"0", "1", "2", "3", "4", "5", "6", "7", "8", "9">>

\* n written with at least two digits, n written with four digits
Pad2(n) == <<DigitChar[((n \div 10) % 10) + 1], DigitChar[(n % 10) + 1]>>

Pad4(n) == Pad2(n \div 100) \o Pad2(n % 100)

\* the text DD-MM-YYYY HH:MM of a calendar minute
Stamp(day, month, year, hours, minutes) ==
    Pad2(day) \o <<"-">> \o Pad2(month) \o <<"-">> \o Pad4(year) \o <<" ">>
    \o Pad2(hours) \o <<":">> \o Pad2(minutes)

CSVRow(timestamp, open, high, low, close, volume) ==
    [timestamp |-> timestamp, open |-> open, high |-> high, low |-> low,
     close |-> close, volume |-> volume]

\* the rows a CSV file is made of here: the two rows of the documented
\* scenario, a bar of the day before with an infinite open, a row without
\* volume, a row with a non-numeric close, and a row with a non-numeric day
\* and a negative volume.  Every timestamp has its space, so the load never
\* takes the catch branch of parseDate and never reads the wall clock.
SampleRows ==
    { CSVRow(Stamp(1, 1, 2024, 9, 30), <<"1","0","0">>, <<"1","0","5">>, <<"9","9">>,
             <<"1","0","4">>, <<"1","0","0","0">>),
      CSVRow(Stamp(1, 1, 2024, 9, 31), <<"1","0","4">>, <<"1","0","6">>, <<"1","0","3">>,
             <<"1","0","5">>, <<"1","2","0","0">>),
      CSVRow(Stamp(31, 12, 2023, 23, 59), InfinityLiteral, <<"1","0","6">>, <<"1","0","3">>,
             <<"1","0","5">>, <<"5","0","0">>),
      CSVRow(Stamp(1, 1, 2024, 9, 33), <<"1","0","5">>, <<"1","0","6">>, <<"1","0","4">>,
             <<"1","0","5">>, <<>>),
      CSVRow(Stamp(1, 1, 2024, 9, 34), <<"1","0","5">>, <<"1","0","6">>, <<"1","0","4">>,
             <<"a","b","c">>, <<"8","0","0">>),
      CSVRow(<<"x","-","0","1","-","2","0","2","4"," ","0","9",":","3","0">>,
             <<"1","0","4">>, <<"1","0","6">>, <<"1","0","3">>, <<"1","0","4",".","5">>,
             <<"-","5">>) }

\* every results.data of at most MaxRows rows
CsvInputs == UNION {[1..n -> SampleRows] : n \in 0..MaxRows}

\* wall clock at the load, in minutes: 02-11-2026 10:00
LoadClock == NewDate(Num(2026), Num(10), Num(2), Num(10), Num(0)).v

Timeframes == {"1m", "5m", "15m", "1h", "all"}

\* closes, in hundredths, of the bars handed to calculateSMA
SmaCloses == {10000, 10400, 10500}

SmaBar(c) ==
    [timestamp |-> Stamp(1, 1, 2024, 9, 30), open |-> Num(c), high |-> Num(c),
     low |-> Num(c), close |-> Num(c), volume |-> Num(1000), signal |-> null]

SmaWindows == UNION {[1..n -> {SmaBar(c) : c \in SmaCloses}] : n \in 1..MaxWindow}

----------------------------------------------------------------------------
(* The component                                                           *)

Init ==
    /\ data = <<>>
    /\ error = null
    /\ timeframe = "all"
    /\ loading = TRUE
    /\ scrollOffset = 0
    /\ maxScrollOffset = 0
    /\ loadStep = "fetching"
    /\ results = <<>>
    /\ pendingEffects = {}
    /\ now = LoadClock
    /\ smaWindow = <<>>
    /\ smaPeriod = 0
    /\ smaResult = <<>>
    /\ parseInput = <<>>
    /\ parseResult = NotParsed

\* fetch rejects or response.ok is false: the catch of loadData
FetchFail ==
    /\ loadStep = "fetching"
    /\ error' \in {"Error loading CSV file: HTTP error! status: 404",
                   "Error loading CSV file: Failed to fetch"}
    /\ loading' = FALSE
    /\ loadStep' = "fetch_failed"
    /\ UNCHANGED <<data, timeframe, scrollOffset, maxScrollOffset, results,
                   pendingEffects, now, smaVars, parseVars>>

\* Papa.parse reports a failure: the error callback
ParseError ==
    /\ loadStep = "fetching"
    /\ error' = "Error parsing CSV data: parse failure"
    /\ loading' = FALSE
    /\ loadStep' = "parse_failed"
    /\ UNCHANGED <<data, timeframe, scrollOffset, maxScrollOffset, results,
                   pendingEffects, now, smaVars, parseVars>>

\* Papa.parse hands over results: the complete callback
ParseComplete ==
    /\ loadStep = "fetching"
    /\ \E rows \in CsvInputs :
         /\ results' = rows
         /\ IF Len(rows) = 0
            THEN /\ error' = "No data found in CSV"
                 /\ loadStep' = "no_rows"
                 /\ UNCHANGED <<data, pendingEffects>>
            ELSE LET parsedData == normalize(rows)
                 IN IF Len(parsedData) = 0
                    THEN /\ error' = "Failed to parse any valid data from CSV"
                         /\ loadStep' = "no_valid_rows"
                         /\ UNCHANGED <<data, pendingEffects>>
                    ELSE /\ \E sorted \in SortOutcomes(parsedData, now) :
                              data' = dataWithSignals(sorted)
                         /\ loadStep' = "loaded"
                         /\ pendingEffects' = {"data"}
                         /\ UNCHANGED error
    /\ loading' = FALSE
    /\ UNCHANGED <<timeframe, scrollOffset, maxScrollOffset, now, smaVars, parseVars>>

\* the render reaches the chart: neither the error nor the loading branch
ChartShown == error = null /\ ~loading /\ Len(data) # 0

\* the reset effect missing: only maxScrollOffset is recomputed
RunEffectsNoReset ==
    /\ pendingEffects # {}
    /\ maxScrollOffset' = maxScrollOffsetFor(data, timeframe)
    /\ pendingEffects' = {}
    /\ UNCHANGED <<data, error, timeframe, loading, scrollOffset, loadStep, results,
                   now, smaVars, parseVars>>

\* the effects of the last commit: [timeframe] resets scrollOffset,
\* [data, timeframe] recomputes maxScrollOffset; they run before the next
\* event is handled
RunEffects ==
    /\ pendingEffects # {}
    /\ scrollOffset' = IF "timeframe" \in pendingEffects THEN 0 ELSE scrollOffset
    /\ maxScrollOffset' = maxScrollOffsetFor(data, timeframe)
    /\ pendingEffects' = {}
    /\ UNCHANGED <<data, error, timeframe, loading, loadStep, results, now, smaVars, parseVars>>

\* onClick of a timeframe button; setting the current value changes nothing
SetTimeframe ==
    /\ ChartShown
    /\ pendingEffects = {}
    /\ Len(getFilteredData(data, timeframe, scrollOffset, now)) # 0
    /\ \E tf \in Timeframes :
         IF tf = timeframe
         THEN UNCHANGED <<timeframe, pendingEffects>>
         ELSE /\ timeframe' = tf
              /\ pendingEffects' = {"timeframe"}
    /\ UNCHANGED <<data, error, loading, scrollOffset, maxScrollOffset, loadStep,
                   results, now, smaVars, parseVars>>

\* the buttons Newer / Older are rendered
NavigationShown ==
    /\ ChartShown
    /\ pendingEffects = {}
    /\ Len(getFilteredData(data, timeframe, scrollOffset, now)) # 0
    /\ timeframe # "all"

\* onClick of Newer, disabled at scrollOffset 0
Newer ==
    /\ NavigationShown
    /\ ~(scrollOffset = 0)
    /\ scrollOffset' = Max(0, scrollOffset - 1)
    /\ UNCHANGED <<data, error, timeframe, loading, maxScrollOffset, loadStep,
                   results, pendingEffects, now, smaVars, parseVars>>

\* onClick of Older, disabled at scrollOffset >= maxScrollOffset
Older ==
    /\ NavigationShown
    /\ ~(scrollOffset >= maxScrollOffset)
    /\ scrollOffset' = Min(maxScrollOffset, scrollOffset + 1)
    /\ UNCHANGED <<data, error, timeframe, loading, maxScrollOffset, loadStep,
                   results, pendingEffects, now, smaVars, parseVars>>

Next ==
    \/ FetchFail
    \/ ParseError
    \/ ParseComplete
    \/ RunEffects
    \/ SetTimeframe
    \/ Newer
    \/ Older

Spec == Init /\ [][Next]_vars

----------------------------------------------------------------------------
(* calculateSMA on its own                                                 *)

InitSMA ==
    /\ data = <<>>
    /\ error = null
    /\ timeframe = "all"
    /\ loading = TRUE
    /\ scrollOffset = 0
    /\ maxScrollOffset = 0
    /\ loadStep = "fetching"
    /\ results = <<>>
    /\ pendingEffects = {}
    /\ now = LoadClock
    /\ smaWindow \in SmaWindows
    /\ smaPeriod = 0
    /\ smaResult = <<>>
    /\ parseInput = <<>>
    /\ parseResult = NotParsed

\* const sma = calculateSMA(period)
CallSMA ==
    /\ \E period \in 1..MaxPeriod :
         /\ smaPeriod' = period
         /\ smaResult' = calculateSMA(smaWindow, period)
    /\ UNCHANGED <<chartVars, smaWindow, parseVars>>

NextSMA == CallSMA

SpecSMA == InitSMA /\ [][NextSMA]_vars

----------------------------------------------------------------------------
(* parseDate on its own                                                    *)

\* minutes the wall clock may advance after the load
MaxTicks == 2

\* timestamps in the format DD-MM-YYYY HH:MM
WellFormedInputs ==
    {Stamp(d, m, y, h, mi) : d \in {1, 28}, m \in {1, 2, 3, 12}, y \in {2023, 2024},
                             h \in {0, 23}, mi \in {0, 59}}

\* timestamps not in the format: no time part (no space at all, the empty
\* string), a date component missing, the minutes missing, a component that
\* is not a number
MalformedInputs ==
    { <<"0","1","-","0","1","-","2","0","2","4">>,
      <<"g","a","r","b","a","g","e">>,
      <<>>,
      <<"0","1","-","2","0","2","4"," ","0","9",":","3","0">>,
      <<"0","1","-","0","1","-","2","0","2","4"," ","0","9">>,
      <<"x","-","0","1","-","2","0","2","4"," ","0","9",":","3","0">>,
      <<"0","1","-","0","1","-","2","0","2","4"," ","0","9",":","x","x">>,
      <<"0","1","-","0","1","-","2","0","2","4"," ">> }

ParseInputs == WellFormedInputs \cup MalformedInputs

InitParse ==
    /\ data = <<>>
    /\ error = null
    /\ timeframe = "all"
    /\ loading = TRUE
    /\ scrollOffset = 0
    /\ maxScrollOffset = 0
    /\ loadStep = "fetching"
    /\ results = <<>>
    /\ pendingEffects = {}
    /\ now = LoadClock
    /\ smaWindow = <<>>
    /\ smaPeriod = 0
    /\ smaResult = <<>>
    /\ parseInput \in ParseInputs
    /\ parseResult = NotParsed

\* the wall clock advances
Tick ==
    /\ now < LoadClock + MaxTicks
    /\ now' = now + 1
    /\ UNCHANGED <<data, error, timeframe, loading, scrollOffset, maxScrollOffset,
                   loadStep, results, pendingEffects, smaVars, parseVars>>

\* parseDate(dateStr) is called
CallParseDate ==
    /\ parseResult' = [called |-> TRUE, at |-> now, value |-> parseDate(parseInput, now)]
    /\ UNCHANGED <<chartVars, smaVars, parseInput>>

NextParse == Tick \/ CallParseDate

SpecParse == InitParse /\ [][NextParse]_vars

----------------------------------------------------------------------------
(* Properties                                                              *)

\* the instant of a bar and of the head of the canonical series
InstantOf(bar) == parseDate(bar.timestamp, now)

\* DD-MM-YYYY HH:MM, digit for digit
WellFormed(ts) ==
    /\ Len(ts) = 16
    /\ ts[3] = "-" /\ ts[6] = "-" /\ ts[11] = " " /\ ts[14] = ":"
    /\ \A i \in {1, 2, 4, 5, 7, 8, 9, 10, 12, 13, 15, 16} : ts[i] \in Digits

AllWellFormed(series) == \A i \in 1..Len(series) : WellFormed(series[i].timestamp)

\* minutes of a bounded timeframe
UnitOf(tf) == CASE tf = "1m" -> 1 [] tf = "5m" -> 5 [] tf = "15m" -> 15 [] tf = "1h" -> 60

\* max(0, floor(seriesLength / unitMinutes) - 1), 0 for 'all'
StatedMaxOffset(tf, seriesLength) ==
    IF tf = "all" THEN 0
    ELSE IF (seriesLength \div UnitOf(tf)) - 1 > 0 THEN (seriesLength \div UnitOf(tf)) - 1 ELSE 0

\* the indices of the bars whose instant lies in the closed interval
\* [T - (offset+1)*unit, T - offset*unit], T the instant of series[0]
IndicesInInterval(series, tf, offset) ==
    LET T == InstantOf(series[1])
        lo == T.v - (offset + 1) * UnitOf(tf)
        hi == T.v - offset * UnitOf(tf)
        InInterval(t) == IsFinite(t) /\ lo <= t.v /\ t.v <= hi
    IN IF IsFinite(T)
       THEN {i \in 1..Len(series) : InInterval(InstantOf(series[i]))}
       ELSE {}

\* C1: after a successful load every render has 0 <= scrollOffset <=
\* maxScrollOffset, the maximum being the one of the timeframe of that render.
C1_OffsetWithinMaxAtEveryRender ==
    ChartShown =>
        /\ 0 <= scrollOffset
        /\ scrollOffset <= StatedMaxOffset(timeframe, Len(data))

\* sum of the closes of window[from .. to]
RECURSIVE SumOfCloses(_, _, _)
SumOfCloses(window, from, to) ==
    IF from > to THEN 0 ELSE window[from].close.v + SumOfCloses(window, from + 1, to)

\* C2 as stated: from index period-1 on, the entry is the mean of the bar and
\* the period-1 bars after it in array order (wherever those bars exist).
C2_MeanOverFollowingBars ==
    (smaPeriod # 0 /\ Len(smaWindow) >= smaPeriod) =>
        \A i \in smaPeriod..Len(smaWindow) :
            (i + smaPeriod - 1 <= Len(smaWindow)) =>
                /\ ~smaResult[i].none
                /\ smaResult[i].num * smaPeriod
                     = smaResult[i].den * SumOfCloses(smaWindow, i, i + smaPeriod - 1)

\* C2 amended: from index period-1 on, the entry is the mean of the bar and
\* the period-1 bars before it in array order, the newer bars of the window.
C2_MeanOverPrecedingBars ==
    (smaPeriod # 0 /\ Len(smaWindow) >= smaPeriod) =>
        \A i \in smaPeriod..Len(smaWindow) :
            /\ ~smaResult[i].none
            /\ smaResult[i].num * smaPeriod
                 = smaResult[i].den * SumOfCloses(smaWindow, i - smaPeriod + 1, i)

C2_Witness ==
    /\ smaPeriod = 2
    /\ Len(smaWindow) = 3
    /\ Len(smaResult) = 3
    /\ ~smaResult[3].none
    /\ smaWindow[1].close # smaWindow[3].close

\* s is an order-preserving subsequence of the rows mapped by rowMap
RECURSIVE IsSubsequenceOfRows(_, _)
IsSubsequenceOfRows(bars, rows) ==
    IF Len(bars) = 0 THEN TRUE
    ELSE IF Len(rows) = 0 THEN FALSE
    ELSE IF bars[1].timestamp = rows[1].timestamp /\ bars[1].close = parseFloat(rows[1].close)
            /\ IsSubsequenceOfRows(Drop(bars, 1), Drop(rows, 1))
         THEN TRUE
         ELSE IsSubsequenceOfRows(bars, Drop(rows, 1))

\* C3: every bar normalize emits has finite open, high, low and close and a
\* non-negative integer volume, and the output is an order-preserving
\* subsequence of the input.
C3_EmittedBarsFiniteAndNonNegative ==
    (loadStep \in {"loaded", "no_valid_rows"}) =>
        LET out == normalize(results)
        IN /\ Len(out) <= Len(results)
           /\ IsSubsequenceOfRows(out, results)
           /\ \A i \in 1..Len(out) :
                /\ IsFinite(out[i].open) /\ IsFinite(out[i].high)
                /\ IsFinite(out[i].low) /\ IsFinite(out[i].close)
                /\ IsFinite(out[i].volume) /\ out[i].volume.v >= 0

\* C4: in the ready state, for a bounded timeframe and an offset within
\* [0, maxScrollOffset], the window is not empty, and when no bar lies in the
\* requested interval it is the first unitMinutes bars of the series.
C4_WindowNeverEmpty ==
    (/\ ChartShown /\ timeframe # "all"
     /\ 0 <= scrollOffset /\ scrollOffset <= StatedMaxOffset(timeframe, Len(data))) =>
        LET window == getFilteredData(data, timeframe, scrollOffset, now)
            n == IF UnitOf(timeframe) < Len(data) THEN UnitOf(timeframe) ELSE Len(data)
        IN /\ Len(window) > 0
           /\ IndicesInInterval(data, timeframe, scrollOffset) = {} =>
                window = SubSeq(data, 1, n)

C4_Witness ==
    /\ ChartShown /\ pendingEffects = {}
    /\ timeframe = "1m" /\ scrollOffset > 0 /\ scrollOffset <= maxScrollOffset
    /\ AllWellFormed(data)
    /\ IndicesInInterval(data, timeframe, scrollOffset) = {}
    /\ getFilteredData(data, timeframe, scrollOffset, now) = <<data[1]>>

\* the k-th smallest element of a finite set of integers
RECURSIVE KthSmallest(_, _)
KthSmallest(S, k) ==
    LET m == CHOOSE x \in S : \A y \in S : x <= y
    IN IF k = 1 THEN m ELSE KthSmallest(S \ {m}, k - 1)

\* C5: for a bounded timeframe with a bar in the interval, the window is
\* exactly the bars whose instant is in the closed interval
\* [T - (offset+1)*unit, T - offset*unit], in canonical order, T the instant
\* of the head of the canonical series.
C5_WindowIsClosedInterval ==
    (/\ ChartShown /\ timeframe # "all"
     /\ IndicesInInterval(data, timeframe, scrollOffset) # {}) =>
        LET window == getFilteredData(data, timeframe, scrollOffset, now)
            I == IndicesInInterval(data, timeframe, scrollOffset)
        IN /\ Len(window) = Cardinality(I)
           /\ \A k \in 1..Len(window) : window[k] = data[KthSmallest(I, k)]

C5_Witness ==
    /\ ChartShown /\ pendingEffects = {}
    /\ timeframe = "1m" /\ scrollOffset = 0
    /\ Len(data) = 3 /\ AllWellFormed(data)
    /\ getFilteredData(data, timeframe, scrollOffset, now) = <<data[1], data[2]>>
    /\ InstantOf(data[2]).v = InstantOf(data[1]).v - 1
    /\ InstantOf(data[3]).v < InstantOf(data[1]).v - 1

\* the terminal states of the load
ErrorState == error # null /\ ~loading /\ Len(data) = 0

ReadyState == error = null /\ ~loading /\ Len(data) # 0

\* a row with six non-empty fields whose five numbers parse
ValidRow(row) ==
    /\ \A field \in {row.timestamp, row.open, row.high, row.low, row.close, row.volume} :
         field # <<>> /\ field # Undefined
    /\ \A price \in {row.open, row.high, row.low, row.close} : parseFloat(price).k # "nan"
    /\ parseInt(row.volume).k # "nan"

\* C6: the load ends in exactly one terminal state, error exactly when the
\* fetch failed, the CSV parse failed or no valid bar remained, ready with a
\* non-empty series and no error otherwise; no later action leaves it.
C6_LoadEndsInOneTerminalState ==
    /\ [](loadStep = "fetching" => (loading /\ error = null /\ Len(data) = 0))
    /\ [](loadStep # "fetching" =>
            /\ (ErrorState \/ ReadyState)
            /\ ~(ErrorState /\ ReadyState)
            /\ ErrorState <=>
                 \/ loadStep \in {"fetch_failed", "parse_failed"}
                 \/ \A i \in 1..Len(results) : ~ValidRow(results[i]))
    /\ [][loadStep # "fetching" =>
            (error' = error /\ loading' = loading /\ data' = data /\ loadStep' = loadStep)]_vars

C6_Witness ==
    /\ loadStep = "no_valid_rows"
    /\ Len(results) = 2
    /\ ErrorState

\* C7: every bar but the last has signal buy if its close is above 1.005
\* times the close of the next bar, sell if below 0.995 times it, none
\* otherwise; the last bar has signal none.
C7_SignalsFollowNextOlderClose ==
    ChartShown =>
        \A i \in 1..Len(data) :
            IF i = Len(data) THEN data[i].signal = null
            ELSE LET c == data[i].close.v
                     older == data[i + 1].close.v
                 IN /\ data[i].signal = "buy" <=> (c * 1000 > older * 1005)
                    /\ data[i].signal = "sell" <=> (c * 1000 < older * 995)
                    /\ data[i].signal = null <=>
                         (~(c * 1000 > older * 1005) /\ ~(c * 1000 < older * 995))

C7_Witness ==
    /\ ChartShown
    /\ Len(data) = 3
    /\ data[1].signal = "buy"
    /\ data[2].signal = "sell"
    /\ data[3].signal = null
    /\ results[1].timestamp = data[3].timestamp

\* C8: a change of timeframe is followed, before any user action, by the
\* reset of scrollOffset to 0 under the new timeframe.
C8_TimeframeChangeResetsOffset ==
    [][/\ (timeframe' # timeframe) => ("timeframe" \in pendingEffects')
       /\ ("timeframe" \in pendingEffects) =>
            (scrollOffset' = 0 /\ timeframe' = timeframe /\ pendingEffects' = {})]_vars

C8_Witness ==
    /\ ChartShown
    /\ "timeframe" \in pendingEffects
    /\ scrollOffset = 2
    /\ timeframe = "5m"

\* C9: a built series whose timestamps are all well-formed has no adjacent
\* pair with instant(bar[i]) < instant(bar[i+1]).
C9_SeriesSortedDescending ==
    (ChartShown /\ AllWellFormed(data)) =>
        \A i \in 1..(Len(data) - 1) : ~(InstantOf(data[i]).v < InstantOf(data[i + 1]).v)

C9_Witness ==
    /\ ChartShown /\ AllWellFormed(data)
    /\ Len(data) = 3 /\ Len(results) = 3
    /\ InstantOf(data[1]).v > InstantOf(data[2]).v
    /\ InstantOf(data[2]).v > InstantOf(data[3]).v
    /\ results[1].timestamp = data[2].timestamp
    /\ results[2].timestamp = data[3].timestamp

\* C10: the list has the length of the window; it is none everywhere when the
\* window is shorter than the period, and otherwise none at exactly the
\* indices 0 .. period-2.
C10_NoneExactlyBeforePeriod ==
    (smaPeriod # 0) =>
        /\ Len(smaResult) = Len(smaWindow)
        /\ (Len(smaWindow) < smaPeriod) =>
             \A i \in 1..Len(smaResult) : smaResult[i].none
        /\ (Len(smaWindow) >= smaPeriod) =>
             \A i \in 1..Len(smaResult) : smaResult[i].none <=> (i - 1 <= smaPeriod - 2)

C10_Witness ==
    /\ smaPeriod = 3
    /\ Len(smaWindow) = 3
    /\ Len(smaResult) = 3
    /\ smaResult[2].none
    /\ ~smaResult[3].none

\* days of the month, 1 = January
DaysInMonth(month, year) ==
    IF month = 2
    THEN IF (year % 4 = 0 /\ year % 100 # 0) \/ year % 400 = 0 THEN 29 ELSE 28
    ELSE IF month \in {4, 6, 9, 11} THEN 30 ELSE 31

DaysInYear(year) == DaysInMonth(2, year) + 337

\* days from 01-01-1970 to the first of January, counted year by year
RECURSIVE DaysUpToYear(_)
DaysUpToYear(year) ==
    IF year = 1970 THEN 0 ELSE DaysUpToYear(year - 1) + DaysInYear(year - 1)

\* days from the first of January to the first of the month, counted month
\* by month
RECURSIVE DaysUpToMonth(_, _)
DaysUpToMonth(month, year) ==
    IF month = 1 THEN 0 ELSE DaysUpToMonth(month - 1, year) + DaysInMonth(month - 1, year)

DaysUpTo(month, year) == DaysUpToYear(year) + DaysUpToMonth(month, year)

TwoDigits(ts, i) == 10 * DigitVal[ts[i]] + DigitVal[ts[i + 1]]

\* the instant, in minutes, a well-formed DD-MM-YYYY HH:MM names
StatedInstant(ts) ==
    LET day == TwoDigits(ts, 1)
        month == TwoDigits(ts, 4)
        year == 100 * TwoDigits(ts, 7) + TwoDigits(ts, 9)
        hours == TwoDigits(ts, 12)
        minutes == TwoDigits(ts, 15)
    IN ((DaysUpTo(month, year) + day - 1) * 24 + hours) * 60 + minutes

\* C11: parseDate returns, for a well-formed DD-MM-YYYY HH:MM, the instant of
\* that day, month, year, hour and minute, and for every malformed input
\* (no time part, a date component missing, a non-numeric component) the
\* current wall-clock instant, never an invalid instant.
C11_MalformedInputGivesCurrentInstant ==
    parseResult.called =>
        IF WellFormed(parseInput)
        THEN parseResult.value = Num(StatedInstant(parseInput))
        ELSE parseResult.value = Num(parseResult.at)

====
